---- MODULE Spec2Model ----
(***************************************************************************)
(* A model of scripts/migrate_uptash.py: the export of an Upstash Redis    *)
(* database to a JSON file.  scan_all_keys enumerates the keyspace with    *)
(* SCAN, export_to_json cuts the key list into batches of BATCH_SIZE keys, *)
(* a ThreadPoolExecutor of THREADS workers runs read_batch on every batch  *)
(* (one TYPE/DUMP/PTTL pipeline request per batch), the main thread merges *)
(* the results in completion order into all_data and writes the document.  *)
(*                                                                         *)
(* The state is the program's: the locals of scan_all_keys and of          *)
(* export_to_json, one future per batch, the lines printed and the output  *)
(* file.  The HTTP responses are the inputs, drawn from small sets.        *)
(***************************************************************************)
EXTENDS Integers, Sequences, FiniteSets

VARIABLES
    pc,          \* where the main thread stands in export_to_json
    cursor,      \* scan_all_keys: cursor
    scan_count,  \* scan_all_keys: scan_count
    all_keys,    \* scan_all_keys: all_keys, then export_to_json: all_keys
    scan_log,    \* the SCAN requests sent and the responses received (observer)
    batches,     \* export_to_json: batches
    futures,     \* export_to_json: futures, one per submitted batch
    all_data,    \* export_to_json: all_data
    stdout,      \* number of lines printed, by kind of line
    summary,     \* the values printed by the closing summary, lines 229-235
    output_file  \* the content of OUTPUT_FILE

vars == <<pc, cursor, scan_count, all_keys, scan_log, batches,
          futures, all_data, stdout, summary, output_file>>

---------------------------------------------------------------------------
(* The program's constants.  BATCH_SIZE is 500 and THREADS is 6 in the     *)
(* source; the model keeps their roles and scales both down to 2 so that   *)
(* several batches, a short last batch and a queue behind the pool all     *)
(* occur within the bounds of the key list.                                *)
BATCH_SIZE == 2
THREADS == 2

(* Bounds of the model. *)
MaxKeys == 5      \* longest key list a scan accumulates
MaxScans == 3     \* most SCAN requests of one run


---------------------------------------------------------------------------
(* JSON values, tagged so that values of different JSON types compare.     *)
JNull == [t |-> "null"]
JStr(s) == [t |-> "str", s |-> s]
JInt(n) == [t |-> "int", n |-> n]
(* An element {} of a pipeline response: an object with no "result" member *)
Missing == [t |-> "missing"]

(* dict.get(key, default) on a response element *)
Get(obj, default) == IF obj = Missing THEN default ELSE obj

(* Python truth value of a JSON value *)
Truthy(v) ==
    CASE v.t = "null" -> FALSE
      [] v.t = "str" -> v.s # ""
      [] v.t = "int" -> v.n # 0
      [] OTHER -> FALSE

Min(a, b) == IF a < b THEN a ELSE b

(* A dict: a function on the set of its keys. *)
EmptyDict == [k \in {} |-> JNull]

(* d[k] = v *)
Put(d, k, v) == [x \in DOMAIN d \cup {k} |-> IF x = k THEN v ELSE d[x]]

(* A slip for d.update(e): all_data = batch_data *)
UpdateReplace(d, e) == e

(* d.update(e) *)
Update(d, e) == [x \in DOMAIN d \cup DOMAIN e |-> IF x \in DOMAIN e THEN e[x] ELSE d[x]]

(* All sequences over S of length lo..hi *)
SeqsOf(S, lo, hi) == UNION {[1..n -> S] : n \in lo..hi}

(* set(keys) *)
KeysOf(s) == {s[i] : i \in 1..Len(s)}

---------------------------------------------------------------------------
(* execute_pipeline.  An HTTP exchange is [exc, status_code, body]: exc    *)
(* when requests.post or resp.json() raises (timeout, connection, bad      *)
(* body), otherwise the status and the decoded JSON list.  The outcome is  *)
(* "raise", "none" (return None) or "list".                                *)
ExecutePipeline(resp) ==
    IF resp.exc THEN [kind |-> "raise", list |-> <<>>]
    ELSE IF resp.status_code # 200 THEN [kind |-> "none", list |-> <<>>]
    ELSE [kind |-> "list", list |-> resp.body]

(* A slip for lines 112-114: DUMP is appended before TYPE                  *)
RECURSIVE BuildCommandsDumpFirst(_)
BuildCommandsDumpFirst(keys) ==
    IF keys = <<>> THEN <<>>
    ELSE << <<"DUMP", Head(keys)>>, <<"TYPE", Head(keys)>>, <<"PTTL", Head(keys)>> >>
         \o BuildCommandsDumpFirst(Tail(keys))

(* read_batch_data, lines 109-114: the pipeline built for a batch *)
RECURSIVE BuildCommands(_)
BuildCommands(keys) ==
    IF keys = <<>> THEN <<>>
    ELSE << <<"TYPE", Head(keys)>>, <<"DUMP", Head(keys)>>, <<"PTTL", Head(keys)>> >>
         \o BuildCommands(Tail(keys))

(* A slip for the place of the dump: the place of the type *)
DumpIdxOfType(i) == i * 3

(* A slip for line 133: only the string "null" is taken for a missing key *)
KeyExistsUnlessNullString(dump_result) == dump_result # JStr("null")

(* A slip for line 137: ttl_result if ttl_result >= 0 else -1 *)
NormalizeTtlFromZero(ttl_result) == IF ttl_result.n >= 0 THEN ttl_result ELSE JInt(-1)

(* read_batch_data, lines 124-126: the places of a key's three results in  *)
(* the response, i being enumerate's index of the key (from 0)             *)
TypeIdx(i) == i * 3
DumpIdx(i) == i * 3 + 1
TtlIdx(i) == i * 3 + 2

(* read_batch_data, line 133: dump_result and dump_result != "null" *)
KeyExists(dump_result) == Truthy(dump_result) /\ dump_result # JStr("null")

(* read_batch_data, line 137: ttl_result if ttl_result > 0 else -1 *)
NormalizeTtl(ttl_result) == IF ttl_result.n > 0 THEN ttl_result ELSE JInt(-1)

(* read_batch_data, lines 122-140: the decoding loop from the key at i     *)
(* (a Python list starts at 0, a sequence at 1).  It raises IndexError on  *)
(* a short list and TypeError when a ttl that is no number is compared     *)
(* with 0.                                                                 *)
RECURSIVE Decode(_, _, _, _)
Decode(keys, results, i, key_data) ==
    IF i >= Len(keys) THEN [raised |-> FALSE, data |-> key_data]
    ELSE
      LET key == keys[i + 1]
          type_idx == TypeIdx(i)
          dump_idx == DumpIdx(i)
          ttl_idx == TtlIdx(i)
      IN  IF \E idx \in {type_idx, dump_idx, ttl_idx} : idx >= Len(results)
          THEN [raised |-> TRUE, data |-> EmptyDict]
          ELSE
            LET key_type == Get(results[type_idx + 1], JStr("none"))
                dump_result == Get(results[dump_idx + 1], JNull)
                ttl_result == Get(results[ttl_idx + 1], JInt(-1))
            IN  IF KeyExists(dump_result)
                THEN IF ttl_result.t # "int"
                     THEN [raised |-> TRUE, data |-> EmptyDict]
                     ELSE Decode(keys, results, i + 1,
                            Put(key_data, key,
                                [type |-> key_type,
                                 dump |-> dump_result,
                                 ttl |-> NormalizeTtl(ttl_result)]))
                ELSE Decode(keys, results, i + 1, key_data)

(* read_batch_data: [raised, data] *)
ReadBatchData(keys, resp) ==
    IF keys = <<>> THEN [raised |-> FALSE, data |-> EmptyDict]
    ELSE LET results == ExecutePipeline(resp)
         IN  IF results.kind = "raise" THEN [raised |-> TRUE, data |-> EmptyDict]
             ELSE IF results.kind = "none" \/ results.list = <<>>
                  THEN [raised |-> FALSE, data |-> EmptyDict]
                  ELSE Decode(keys, results.list, 0, EmptyDict)

(* read_batch: what it returns and the line it prints *)
ReadBatch(keys, resp) ==
    LET r == ReadBatchData(keys, resp)
    IN  IF r.raised THEN [ret |-> EmptyDict, line |-> "batch_failed"]
        ELSE IF DOMAIN r.data = {} THEN [ret |-> EmptyDict, line |-> "no_data"]
        ELSE [ret |-> r.data, line |-> "batch_ok"]

---------------------------------------------------------------------------
(* A slip for range(0, n, step): the starts of the full batches only *)
RECURSIVE RangeOfFull(_, _, _)
RangeOfFull(start, stop, step) ==
    IF start + step > stop THEN <<>>
    ELSE <<start>> \o RangeOfFull(start + step, stop, step)

(* A slip for line 187: the batches start BATCH_SIZE - 1 keys apart *)
RECURSIVE StartsApart(_, _, _)
StartsApart(start, stop, step) ==
    IF start >= stop THEN <<>> ELSE <<start>> \o StartsApart(start + step, stop, step)

BatchesOverlapping(keys) ==
    LET starts == StartsApart(0, Len(keys), BATCH_SIZE - 1)
    IN  [j \in 1..Len(starts) |->
            SubSeq(keys, starts[j] + 1, Min(starts[j] + BATCH_SIZE, Len(keys)))]

(* export_to_json, line 187: range(0, n, step) and all_keys[lo:hi] *)
RECURSIVE Range(_, _, _)
Range(start, stop, step) ==
    IF start >= stop THEN <<>> ELSE <<start>> \o Range(start + step, stop, step)

Slice(s, lo, hi) == SubSeq(s, lo + 1, Min(hi, Len(s)))

Batches(keys) ==
    LET starts == Range(0, Len(keys), BATCH_SIZE)
    IN  [j \in 1..Len(starts) |-> Slice(keys, starts[j], starts[j] + BATCH_SIZE)]

---------------------------------------------------------------------------
(* The lines the program prints that tell how the run went. *)
Lines == {"scan_failed", "total_found", "no_keys", "pipeline_failed",
          "no_data", "batch_ok", "batch_failed", "writing", "complete"}

Emit(out, line) == [out EXCEPT ![line] = @ + 1]

NoSummary == [printed |-> FALSE]
NoFile == [exists |-> FALSE]

(* str(result[0]) of a JSON cursor: a string as it is, an integer in decimal *)
Str(v) ==
    IF v.t = "str" THEN v.s
    ELSE CASE v.n = 0 -> "0"
           [] v.n = 3 -> "3"
           [] v.n = 7 -> "7"
           [] OTHER -> "?"

(* The exchange of a future that has not been answered yet *)
NoResp == [exc |-> FALSE, status_code |-> 0, body |-> <<>>]

(* export_to_json has read its configuration (lines 167-177, both values   *)
(* present) and enters scan_all_keys.                                      *)
Init ==
    /\ pc = "scan"
    /\ cursor = "0"
    /\ scan_count = 0
    /\ all_keys = <<>>
    /\ scan_log = <<>>
    /\ batches = <<>>
    /\ futures = <<>>
    /\ all_data = EmptyDict
    /\ stdout = [l \in Lines |-> 0]
    /\ summary = NoSummary
    /\ output_file = NoFile

---------------------------------------------------------------------------
(* A slip for lines 83-92: the cursor "0" ends the loop before the keys of  *)
(* the step are taken                                                      *)
ExtendUnlessLast(keys, result) ==
    IF Str(result[1]) = "0" THEN keys ELSE keys \o result[2]

(* scan_all_keys, lines 85-86: keys = result[1]; all_keys.extend(keys) *)
Extend(keys, result) == keys \o result[2]

(* scan_all_keys, lines 66-92: one iteration of the while loop, answered   *)
(* by resp = [exc, status_code, result].  result is data.get('result', []) *)
(* of the decoded body.  An exception of requests.post is caught nowhere:  *)
(* it ends export_to_json.  (The progress line of every tenth step, line   *)
(* 89, changes nothing and is not among Lines.)                            *)
ScanStep(resp) ==
    /\ pc = "scan"
    /\ scan_count' = scan_count + 1
    /\ IF resp.exc
       THEN /\ pc' = "crashed"
            /\ UNCHANGED <<cursor, all_keys, stdout>>
       ELSE IF resp.status_code # 200
       THEN /\ stdout' = Emit(stdout, "scan_failed")
            /\ pc' = "scanned"
            /\ UNCHANGED <<cursor, all_keys>>
       ELSE /\ IF Len(resp.result) >= 2
               THEN /\ cursor' = Str(resp.result[1])
                    /\ all_keys' = Extend(all_keys, resp.result)
               ELSE UNCHANGED <<cursor, all_keys>>
            /\ pc' = IF cursor' = "0" THEN "scanned" ELSE "scan"
            /\ UNCHANGED stdout
    /\ UNCHANGED <<batches, futures, all_data, summary, output_file>>

(* What the observer writes down of a step: the cursor sent in the request *)
(* and the response.                                                       *)
Logged(resp) == scan_log' = Append(scan_log, [sent |-> cursor, resp |-> resp])

(* A slip for the return of line 184: with no key found export_to_json     *)
(* goes on to the pool and the file                                        *)
PartitionWithoutReturn ==
    /\ pc = "scanned"
    /\ IF all_keys = <<>>
       THEN /\ stdout' = Emit(Emit(stdout, "total_found"), "no_keys")
            /\ batches' = <<>>
            /\ pc' = "collect"
       ELSE /\ stdout' = Emit(stdout, "total_found")
            /\ batches' = Batches(all_keys)
            /\ pc' = "submit"
    /\ all_data' = EmptyDict
    /\ futures' = <<>>
    /\ cursor' = "0"
    /\ scan_count' = 0
    /\ UNCHANGED <<all_keys, scan_log, summary, output_file>>

(* scan_all_keys, lines 94-95 and export_to_json, lines 180-196: the scan  *)
(* returns, an empty key list ends the run, any other is cut into batches. *)
(* The locals cursor and scan_count end with the call: they are written    *)
(* here as the values a next call would start from.                        *)
Partition ==
    /\ pc = "scanned"
    /\ IF all_keys = <<>>
       THEN /\ stdout' = Emit(Emit(stdout, "total_found"), "no_keys")
            /\ pc' = "returned"
            /\ UNCHANGED batches
       ELSE /\ stdout' = Emit(stdout, "total_found")
            /\ batches' = Batches(all_keys)
            /\ pc' = "submit"
    /\ all_data' = EmptyDict
    /\ futures' = <<>>
    /\ cursor' = "0"
    /\ scan_count' = 0
    /\ UNCHANGED <<all_keys, scan_log, summary, output_file>>

(* export_to_json, lines 201-203: executor.submit of the next batch *)
Submit ==
    /\ pc = "submit"
    /\ LET i == Len(futures) + 1
       IN  /\ futures' = Append(futures,
                  [batch_id |-> i, keys |-> batches[i], state |-> "pending",
                   sent |-> <<>>, resp |-> NoResp, result |-> EmptyDict,
                   merged |-> 0])
           /\ pc' = IF i = Len(batches) THEN "collect" ELSE "submit"
    /\ UNCHANGED <<cursor, scan_count, all_keys, scan_log, batches, all_data,
                   stdout, summary, output_file>>

Running == {b \in 1..Len(futures) : futures[b].state = "running"}

(* A slip for ThreadPoolExecutor(max_workers=THREADS): a thread per task,  *)
(* whatever number is running                                              *)
WorkerStartUnbounded(b) ==
    /\ futures[b].state = "pending"
    /\ \A c \in 1..(b - 1) : futures[c].state # "pending"
    /\ futures' = [futures EXCEPT ![b].state = "running",
                                  ![b].sent = Append(@, BuildCommands(futures[b].keys))]
    /\ UNCHANGED <<pc, cursor, scan_count, all_keys, scan_log, batches, all_data,
                   stdout, summary, output_file>>

(* ThreadPoolExecutor: a free worker takes the oldest work item of the     *)
(* queue and calls read_batch, which builds the pipeline and posts it      *)
(* (read_batch_data, lines 109-116, execute_pipeline, lines 36-41).        *)
WorkerStart(b) ==
    /\ futures[b].state = "pending"
    /\ \A c \in 1..(b - 1) : futures[c].state # "pending"
    /\ Cardinality(Running) < THREADS
    /\ futures' = [futures EXCEPT ![b].state = "running",
                                  ![b].sent = Append(@, BuildCommands(futures[b].keys))]
    /\ UNCHANGED <<pc, cursor, scan_count, all_keys, scan_log, batches, all_data,
                   stdout, summary, output_file>>

(* A slip for the except of read_batch: a batch whose read failed is       *)
(* queued once more                                                        *)
WorkerFinishRetrying(b, resp) ==
    /\ futures[b].state = "running"
    /\ LET r == ReadBatch(futures[b].keys, resp)
           out == IF ~resp.exc /\ resp.status_code # 200
                  THEN Emit(stdout, "pipeline_failed") ELSE stdout
           again == r.line = "batch_failed" /\ Len(futures[b].sent) < 2
       IN  /\ futures' = [futures EXCEPT ![b].state = IF again THEN "pending"
                                                       ELSE "finished",
                                         ![b].resp = resp,
                                         ![b].result = r.ret]
           /\ stdout' = Emit(out, r.line)
    /\ UNCHANGED <<pc, cursor, scan_count, all_keys, scan_log, batches, all_data,
                   summary, output_file>>

(* A slip for the return of read_batch: the worker itself puts what it     *)
(* read into all_data                                                      *)
WorkerFinishMerging(b, resp) ==
    /\ futures[b].state = "running"
    /\ LET r == ReadBatch(futures[b].keys, resp)
           out == IF ~resp.exc /\ resp.status_code # 200
                  THEN Emit(stdout, "pipeline_failed") ELSE stdout
       IN  /\ futures' = [futures EXCEPT ![b].state = "finished",
                                         ![b].resp = resp,
                                         ![b].result = r.ret]
           /\ all_data' = Update(all_data, r.ret)
           /\ stdout' = Emit(out, r.line)
    /\ UNCHANGED <<pc, cursor, scan_count, all_keys, scan_log, batches,
                   summary, output_file>>

(* The exchange ends with resp; read_batch returns and its future is done  *)
(* (execute_pipeline, lines 43-47, read_batch_data, lines 118-140,         *)
(* read_batch, lines 148-160).                                             *)
WorkerFinish(b, resp) ==
    /\ futures[b].state = "running"
    /\ LET r == ReadBatch(futures[b].keys, resp)
           out == IF ~resp.exc /\ resp.status_code # 200
                  THEN Emit(stdout, "pipeline_failed") ELSE stdout
       IN  /\ futures' = [futures EXCEPT ![b].state = "finished",
                                         ![b].resp = resp,
                                         ![b].result = r.ret]
           /\ stdout' = Emit(out, r.line)
    /\ UNCHANGED <<pc, cursor, scan_count, all_keys, scan_log, batches, all_data,
                   summary, output_file>>

(* A slip for the except of read_batch: the exception of a failed read     *)
(* leaves future.result() and ends export_to_json                          *)
MergeRaising(b) ==
    /\ pc = "collect"
    /\ futures[b].state = "finished"
    /\ futures[b].merged = 0
    /\ IF ReadBatchData(futures[b].keys, futures[b].resp).raised
       THEN /\ pc' = "crashed"
            /\ UNCHANGED <<futures, all_data>>
       ELSE /\ all_data' = Update(all_data, futures[b].result)
            /\ futures' = [futures EXCEPT ![b].merged = @ + 1]
            /\ UNCHANGED pc
    /\ UNCHANGED <<cursor, scan_count, all_keys, scan_log, batches,
                   stdout, summary, output_file>>

(* export_to_json, lines 206-208: as_completed yields a finished future    *)
(* not yielded before, and its result is merged.                           *)
Merge(b) ==
    /\ pc = "collect"
    /\ futures[b].state = "finished"
    /\ futures[b].merged = 0
    /\ all_data' = Update(all_data, futures[b].result)
    /\ futures' = [futures EXCEPT ![b].merged = @ + 1]
    /\ UNCHANGED <<pc, cursor, scan_count, all_keys, scan_log, batches,
                   stdout, summary, output_file>>

(* A slip for the as_completed loop: the document is written as soon as    *)
(* the batches are submitted, whatever was merged                          *)
WriteFileEarly ==
    /\ pc = "collect"
    /\ output_file' = [exists |-> TRUE,
                       metadata |-> [total_keys |-> Cardinality(DOMAIN all_data)],
                       keys |-> all_data]
    /\ summary' = [printed |-> TRUE,
                   total_keys_exported |-> Cardinality(DOMAIN all_data)]
    /\ stdout' = Emit(Emit(stdout, "writing"), "complete")
    /\ pc' = "done"
    /\ UNCHANGED <<cursor, scan_count, all_keys, scan_log, batches, futures, all_data>>

(* A slip for len(all_data): the keys the scan listed are counted          *)
OutputCountingScanned(data) ==
    [exists |-> TRUE,
     metadata |-> [total_keys |-> Len(all_keys)],
     keys |-> data]

(* The document json.dump writes to OUTPUT_FILE (lines 217-227); source_url *)
(* and export_timestamp do not depend on the run.                           *)
Output(data) ==
    [exists |-> TRUE,
     metadata |-> [total_keys |-> Cardinality(DOMAIN data)],
     keys |-> data]

(* export_to_json, lines 209-235: every future was yielded, the pool shuts *)
(* down, the document is built and written, the summary printed.           *)
WriteFile ==
    /\ pc = "collect"
    /\ \A b \in 1..Len(futures) : futures[b].merged > 0
    /\ output_file' = Output(all_data)
    /\ summary' = [printed |-> TRUE,
                   total_keys_exported |-> Cardinality(DOMAIN all_data)]
    /\ stdout' = Emit(Emit(stdout, "writing"), "complete")
    /\ pc' = "done"
    /\ UNCHANGED <<cursor, scan_count, all_keys, scan_log, batches, futures, all_data>>

---------------------------------------------------------------------------
(* The inputs: what the server may answer.                                 *)

(* A SCAN exchange: an exception, a status other than 200, or a body whose *)
(* result has no element, one element, or a cursor and a list of keys.     *)
ScanResults(cursors, chunks) ==
    {<<>>} \cup {<<c>> : c \in cursors}
           \cup {<<c, ks>> : c \in cursors, ks \in chunks}

ScanResponses(cursors, chunks) ==
    {[exc |-> TRUE, status_code |-> 0, result |-> <<>>],
     [exc |-> FALSE, status_code |-> 500, result |-> <<>>]}
    \cup {[exc |-> FALSE, status_code |-> 200, result |-> r] :
             r \in ScanResults(cursors, chunks)}

(* The key lists a SCAN step returns in the model *)
ExportChunks == {<<>>, <<"a">>, <<"b">>, <<"a", "b">>}
ScanChunks == ExportChunks \cup {<<"c">>, <<"b", "c">>}

(* The cursors of the export's scans, and those of the scans looked at on  *)
(* their own: strings and integers, as JSON carries them                   *)
ExportCursors == {JStr("0"), JStr("3")}
ScanCursors == {JStr("0"), JStr("3"), JStr("7"), JInt(0), JInt(3)}

(* The keys a response adds stay within the longest list of the model *)
Fits(resp) ==
    Len(resp.result) >= 2 => Len(all_keys) + Len(resp.result[2]) <= MaxKeys

(* The server ends every enumeration: the last SCAN of the model's bound   *)
(* is not answered by a cursor that asks for another one.                  *)
ScanBounded == scan_count' < MaxScans \/ pc' # "scan"

(* A key of the store when a pipeline reads it: gone (deleted since the    *)
(* scan), alive without expiry, alive with 5 ms left.                      *)
KeyStates == {"gone", "persistent", "volatile"}

Answer(st, verb) ==
    CASE verb = "TYPE" -> IF st = "gone" THEN JStr("none") ELSE JStr("string")
      [] verb = "DUMP" -> IF st = "gone" THEN JNull ELSE JStr("X1")
      [] verb = "PTTL" -> IF st = "gone" THEN JInt(-2)
                          ELSE IF st = "persistent" THEN JInt(-1) ELSE JInt(5)

(* The bodies of a Redis that answers command j at position j from the     *)
(* state of the command's key.                                             *)
StoreBodies(commands) ==
    {[j \in 1..Len(commands) |-> Answer(store[commands[j][2]], commands[j][1])] :
        store \in [{commands[j][2] : j \in 1..Len(commands)} -> KeyStates]}

(* Any JSON the decoder may meet at the position of a command: a missing   *)
(* or null result, an empty string, the string "null", two payloads        *)
AnyAnswers(verb) ==
    CASE verb = "TYPE" -> {Missing, JNull, JStr("string")}
      [] verb = "DUMP" -> {Missing, JNull, JStr(""), JStr("null"), JStr("X1"), JStr("X2")}
      [] verb = "PTTL" -> {Missing, JNull, JInt(-2), JInt(-1), JInt(0), JInt(5)}

(* Every body with such an answer at each position, and the bodies that    *)
(* are short: empty, or the last element missing                           *)
RECURSIVE FullBodies(_)
FullBodies(commands) ==
    IF commands = <<>> THEN {<<>>}
    ELSE {<<v>> \o rest : v \in AnyAnswers(Head(commands)[1]),
                          rest \in FullBodies(Tail(commands))}

AnyBodies(commands) ==
    LET full == FullBodies(commands)
    IN  full \cup {<<>>} \cup {SubSeq(body, 1, Len(commands) - 1) : body \in full}

PipelineResponses(bodies) ==
    {[exc |-> TRUE, status_code |-> 0, body |-> <<>>],
     [exc |-> FALSE, status_code |-> 500, body |-> <<>>]}
    \cup {[exc |-> FALSE, status_code |-> 200, body |-> body] : body \in bodies}

---------------------------------------------------------------------------
(* The export: a scan, then the batches read by the pool. *)
Scan ==
    \E resp \in ScanResponses(ExportCursors, ExportChunks) :
        /\ Fits(resp)
        /\ ScanStep(resp)
        /\ ScanBounded
        /\ UNCHANGED scan_log

Start == \E b \in 1..Len(futures) : WorkerStart(b)

Finish ==
    \E b \in Running :
        \E resp \in PipelineResponses(StoreBodies(BuildCommands(futures[b].keys))) :
            WorkerFinish(b, resp)

Collect == \E b \in 1..Len(futures) : Merge(b)

Next == Scan \/ Partition \/ Submit \/ Start \/ Finish \/ Collect \/ WriteFile

Spec == Init /\ [][Next]_vars

(* The export as the threads run it.  The main thread and the workers of   *)
(* the pool are threads of the operating system: none that can take a step *)
(* is held back for ever.  Every pipeline request ends, by an answer or by *)
(* the timeout of 60 s (execute_pipeline, line 40).  Nothing is assumed of *)
(* the scan.                                                               *)
Fairness ==
    /\ WF_vars(Partition)
    /\ WF_vars(Submit)
    /\ WF_vars(Start)
    /\ WF_vars(Finish)
    /\ WF_vars(Collect)
    /\ WF_vars(WriteFile)

FairSpec == Init /\ [][Next]_vars /\ Fairness

---------------------------------------------------------------------------
(* scan_all_keys on its own, with every request and response written down. *)
ScanLogged ==
    \E resp \in ScanResponses(ScanCursors, ScanChunks) :
        /\ Fits(resp)
        /\ ScanStep(resp)
        /\ ScanBounded
        /\ Logged(resp)

NextScan == ScanLogged \/ Partition

SpecScan == Init /\ [][NextScan]_vars

---------------------------------------------------------------------------
(* read_batch_data and read_batch on their own: the export of one batch,   *)
(* from the return of a scan that found the batch's keys in one step, with *)
(* any JSON at every position of the response.                             *)
InitRead ==
    /\ pc = "scanned"
    /\ cursor = "0"
    /\ scan_count = 1
    /\ all_keys \in SeqsOf({"a", "b"}, 1, BATCH_SIZE)
    /\ scan_log = <<>>
    /\ batches = <<>>
    /\ futures = <<>>
    /\ all_data = EmptyDict
    /\ stdout = [l \in Lines |-> 0]
    /\ summary = NoSummary
    /\ output_file = NoFile

FinishAny ==
    \E b \in Running :
        \E resp \in PipelineResponses(AnyBodies(BuildCommands(futures[b].keys))) :
            WorkerFinish(b, resp)

NextRead == Partition \/ Submit \/ Start \/ FinishAny \/ Collect \/ WriteFile

SpecRead == InitRead /\ [][NextRead]_vars

---------------------------------------------------------------------------
(* What the properties below speak of. *)

Finished == {b \in 1..Len(futures) : futures[b].state = "finished"}

(* read_batch_data raised while it read batch b *)
Raised(b) == ReadBatchData(futures[b].keys, futures[b].resp).raised

(* The read of batch b failed: execute_pipeline got a status other than    *)
(* 200, or read_batch_data raised.                                         *)
ReadFailed(b) ==
    \/ ~futures[b].resp.exc /\ futures[b].resp.status_code # 200
    \/ Raised(b)

FailedBatches == {b \in Finished : ReadFailed(b)}
SucceededBatches == {b \in Finished : ~ReadFailed(b)}

(* C1. Partial-failure isolation.  A batch whose read failed returns no    *)
(* record.  When the export is done every batch was submitted, read and    *)
(* merged once, whatever failed, and all_data is the union of the mappings *)
(* the succeeded batches returned: its keys are theirs, and the record of  *)
(* each key is one a succeeded batch returned for it.                      *)
PartialFailureIsolation ==
    /\ \A b \in FailedBatches : futures[b].result = EmptyDict
    /\ pc = "done" =>
        /\ Len(futures) = Len(batches)
        /\ \A b \in 1..Len(futures) :
              /\ futures[b].keys = batches[b]
              /\ futures[b].state = "finished"
              /\ futures[b].merged = 1
        /\ DOMAIN all_data = UNION {DOMAIN futures[b].result : b \in SucceededBatches}
        /\ \A k \in DOMAIN all_data :
              \E b \in SucceededBatches :
                  /\ k \in DOMAIN futures[b].result
                  /\ all_data[k] = futures[b].result[k]

(* Batch 2 of three failed, batches 1 and 3 returned records, and the run  *)
(* is done.                                                                *)
PartialFailureWitness ==
    /\ pc = "done"
    /\ Len(futures) = 3
    /\ FailedBatches = {2}
    /\ DOMAIN futures[1].result # {}
    /\ DOMAIN futures[3].result # {}
    /\ DOMAIN all_data # {}

(* C2. When the export is done it reports, with the snapshot, a count of   *)
(* the failed batches, equal to the number of batches whose read failed.   *)
FailureCountReported ==
    pc = "done" =>
        /\ "failed_batches" \in DOMAIN summary
        /\ summary.failed_batches = Cardinality(FailedBatches)

(* C3. A scan failure is fatal: once a SCAN step got a status other than   *)
(* 200, no batch read is dispatched, the run does not complete and no      *)
(* file is written.                                                        *)
ScanFailureIsFatal ==
    stdout["scan_failed"] > 0 =>
        /\ futures = <<>>
        /\ pc # "done"
        /\ ~output_file.exists

---------------------------------------------------------------------------
(* Step i of the scan returned a cursor and keys *)
Returned(i) ==
    /\ ~scan_log[i].resp.exc
    /\ scan_log[i].resp.status_code = 200
    /\ Len(scan_log[i].resp.result) >= 2

ReturnedCursor(i) == Str(scan_log[i].resp.result[1])
ReturnedKeys(i) == scan_log[i].resp.result[2]

(* The keys of steps 1..n that returned any, in the order of the steps *)
RECURSIVE KeysUpTo(_)
KeysUpTo(n) ==
    IF n = 0 THEN <<>>
    ELSE KeysUpTo(n - 1) \o (IF Returned(n) THEN ReturnedKeys(n) ELSE <<>>)

(* C4. Scan termination and accumulation.  The first SCAN carries cursor   *)
(* "0" and each SCAN after a step that returned a cursor carries that      *)
(* cursor; one request is made per step; a step that returned cursor "0"   *)
(* is the last one and ends the scan, a step that returned another cursor  *)
(* does not end it; and all_keys holds the keys of every step, the last    *)
(* included, in order.                                                     *)
ScanTermination ==
    /\ scan_log # <<>> => scan_log[1].sent = "0"
    /\ pc \in {"scan", "scanned", "crashed"} => scan_count = Len(scan_log)
    /\ \A i \in 2..Len(scan_log) :
          Returned(i - 1) => scan_log[i].sent = ReturnedCursor(i - 1)
    /\ \A i \in 1..Len(scan_log) :
          Returned(i) =>
              IF ReturnedCursor(i) = "0"
              THEN i = Len(scan_log) /\ pc # "scan"
              ELSE i = Len(scan_log) => pc = "scan"
    /\ all_keys = KeysUpTo(Len(scan_log))

(* The scan answered with cursors "3", "7", "0" has returned after three   *)
(* requests, with the keys of the three steps.                             *)
ScanTerminationWitness ==
    /\ pc = "scanned"
    /\ scan_count = 3
    /\ Len(scan_log) = 3
    /\ \A i \in 1..3 : Returned(i) /\ ReturnedKeys(i) # <<>>
    /\ <<ReturnedCursor(1), ReturnedCursor(2), ReturnedCursor(3)>> = <<"3", "7", "0">>
    /\ all_keys = ReturnedKeys(1) \o ReturnedKeys(2) \o ReturnedKeys(3)

---------------------------------------------------------------------------
RECURSIVE Concat(_)
Concat(ss) == IF ss = <<>> THEN <<>> ELSE Head(ss) \o Concat(Tail(ss))

NoDuplicates(s) == \A i, j \in 1..Len(s) : s[i] = s[j] => i = j

PairwiseDisjoint(bs) ==
    \A i, j \in 1..Len(bs) : i # j => KeysOf(bs[i]) \cap KeysOf(bs[j]) = {}

(* C5 as stated: for every key list the scan returns, the batches are      *)
(* pairwise disjoint, every key is in exactly one batch, and the union of  *)
(* the batches is the set of scanned keys.                                 *)
DisjointPartition ==
    pc = "submit" =>
        /\ PairwiseDisjoint(batches)
        /\ \A k \in KeysOf(all_keys) :
              Cardinality({j \in 1..Len(batches) : k \in KeysOf(batches[j])}) = 1
        /\ UNION {KeysOf(batches[j]) : j \in 1..Len(batches)} = KeysOf(all_keys)

(* C5, amended.  The batches are the key list cut in consecutive pieces:   *)
(* joined in order they give back the list, so every position of the list  *)
(* is in exactly one batch and the union of the batches is the set of      *)
(* scanned keys; they are pairwise disjoint when the scan returned no key  *)
(* twice.                                                                  *)
PositionalPartition ==
    pc = "submit" =>
        /\ Concat(batches) = all_keys
        /\ UNION {KeysOf(batches[j]) : j \in 1..Len(batches)} = KeysOf(all_keys)
        /\ NoDuplicates(all_keys) => PairwiseDisjoint(batches)

(* Three distinct keys cut in two batches *)
PositionalPartitionWitness ==
    /\ pc = "submit"
    /\ NoDuplicates(all_keys)
    /\ Len(all_keys) = 3
    /\ Len(batches) = 2

(* C6. Every batch is non-empty and has at most BATCH_SIZE keys, every     *)
(* batch but the last has exactly BATCH_SIZE, and there are                *)
(* ceil(len(all_keys) / BATCH_SIZE) batches.                               *)
BatchSizes ==
    pc = "submit" =>
        /\ \A j \in 1..Len(batches) :
              /\ Len(batches[j]) >= 1
              /\ Len(batches[j]) <= BATCH_SIZE
              /\ j < Len(batches) => Len(batches[j]) = BATCH_SIZE
        /\ Len(batches) * BATCH_SIZE >= Len(all_keys)
        /\ (Len(batches) - 1) * BATCH_SIZE < Len(all_keys)

(* Five keys cut in three batches, the last one short *)
BatchSizesWitness ==
    /\ pc = "submit"
    /\ Len(all_keys) = 5
    /\ Len(batches) = 3
    /\ Len(batches[3]) < BATCH_SIZE

---------------------------------------------------------------------------
(* The pipeline sent for batch b, and the answer at the place of the verb  *)
(* command of the i-th key of the batch (i from 1)                         *)
Cmds(b) == futures[b].sent[1]

CmdIndex(b, i, verb) ==
    CHOOSE j \in (3 * (i - 1) + 1)..(3 * i) : Cmds(b)[j] = <<verb, futures[b].keys[i]>>

AnswerTo(b, i, verb) == futures[b].resp.body[CmdIndex(b, i, verb)]

(* read_batch_data returned the mapping it decoded from a response with    *)
(* one result per command                                                  *)
Decoded(b) ==
    /\ b \in Finished
    /\ ~futures[b].resp.exc
    /\ futures[b].resp.status_code = 200
    /\ Len(futures[b].resp.body) = Len(Cmds(b))
    /\ ~Raised(b)

NonNull(v) == v # JNull /\ v # Missing
Payload(v) == v.t = "str" /\ v.s # "" /\ v.s # "null"

(* The places of key k in batch b whose DUMP answer satisfies P *)
DumpPlaces(b, k, P(_)) ==
    {i \in 1..Len(futures[b].keys) :
        futures[b].keys[i] = k /\ P(AnswerTo(b, i, "DUMP"))}

Last(S) == CHOOSE i \in S : \A j \in S : j <= i

(* C7 as stated: k is in the mapping read_batch_data returns if and only   *)
(* if the DUMP result for k is non-null, and the record carries that       *)
(* result.                                                                 *)
NullDumpExclusion ==
    \A b \in Finished : Decoded(b) =>
        \A k \in KeysOf(futures[b].keys) :
            /\ k \in DOMAIN futures[b].result <=> DumpPlaces(b, k, NonNull) # {}
            /\ k \in DOMAIN futures[b].result =>
                  futures[b].result[k].dump = AnswerTo(b, Last(DumpPlaces(b, k, NonNull)), "DUMP")

(* C7, amended.  k is in the mapping read_batch_data returns if and only   *)
(* if a DUMP result for k is a string other than "" and "null"; such a     *)
(* result is carried unchanged by the record of k (the last one, when the  *)
(* batch holds k twice); a null or missing DUMP result keeps k out         *)
(* whatever the TYPE and PTTL results are.                                 *)
PayloadDumpExclusion ==
    \A b \in Finished : Decoded(b) =>
        \A k \in KeysOf(futures[b].keys) :
            /\ k \in DOMAIN futures[b].result <=> DumpPlaces(b, k, Payload) # {}
            /\ k \in DOMAIN futures[b].result =>
                  futures[b].result[k].dump = AnswerTo(b, Last(DumpPlaces(b, k, Payload)), "DUMP")

(* Of a batch of two keys, one with a null DUMP result and a TYPE and a    *)
(* PTTL result of a living key is left out, the other is returned with     *)
(* its payload.                                                            *)
PayloadDumpExclusionWitness ==
    \E b \in Finished :
        /\ Decoded(b)
        /\ Len(futures[b].keys) = 2
        /\ futures[b].keys[1] # futures[b].keys[2]
        /\ AnswerTo(b, 1, "DUMP") = JNull
        /\ AnswerTo(b, 1, "TYPE") = JStr("string")
        /\ AnswerTo(b, 1, "PTTL") = JInt(5)
        /\ AnswerTo(b, 2, "DUMP") = JStr("X2")
        /\ DOMAIN futures[b].result = {futures[b].keys[2]}
        /\ futures[b].result[futures[b].keys[2]].dump = JStr("X2")

(* C8. TTL normalization.  The ttl of every record read_batch_data returns *)
(* is the PTTL result of the key when that is an integer above 0, and -1   *)
(* when it is 0, negative or missing; no record has ttl 0 or below -1.     *)
TtlNormalization ==
    \A b \in Finished : Decoded(b) =>
        \A k \in DOMAIN futures[b].result :
            LET pttl == AnswerTo(b, Last(DumpPlaces(b, k, Payload)), "PTTL")
                ttl == futures[b].result[k].ttl
            IN  /\ ttl.t = "int"
                /\ ttl.n > 0 \/ ttl.n = -1
                /\ (pttl # Missing /\ pttl.t = "int" /\ pttl.n > 0) => ttl = pttl
                /\ (pttl = Missing \/ (pttl.t = "int" /\ pttl.n <= 0)) => ttl = JInt(-1)

(* A batch of two keys returned both: one with PTTL result 0 has ttl -1,   *)
(* the other keeps its PTTL result 5.                                      *)
TtlNormalizationWitness ==
    \E b \in Finished :
        /\ Decoded(b)
        /\ Len(futures[b].keys) = 2
        /\ futures[b].keys[1] # futures[b].keys[2]
        /\ AnswerTo(b, 1, "PTTL") = JInt(0)
        /\ AnswerTo(b, 2, "PTTL") = JInt(5)
        /\ DOMAIN futures[b].result = KeysOf(futures[b].keys)
        /\ futures[b].result[futures[b].keys[1]].ttl = JInt(-1)
        /\ futures[b].result[futures[b].keys[2]].ttl = JInt(5)

---------------------------------------------------------------------------
(* The results of batches 1..n merged in the order of the batches *)
RECURSIVE MergedInOrder(_)
MergedInOrder(n) ==
    IF n = 0 THEN EmptyDict ELSE Update(MergedInOrder(n - 1), futures[n].result)

(* C9. Merge order-independence.  The responses of the batches being what  *)
(* they are, the snapshot of a finished export is the same in whatever     *)
(* order the reads completed: it is the one the order of the batches       *)
(* gives.                                                                  *)
MergeOrderIndependent ==
    pc = "done" => all_data = MergedInOrder(Len(futures))

(* C10. Snapshot provenance.  Every key of all_data was returned by the    *)
(* scan of this run and had a non-null DUMP result, which its record       *)
(* carries, in the response of a batch that was read and merged.  (That no *)
(* key occurs twice is what a dict is.)                                    *)
SnapshotProvenance ==
    \A k \in DOMAIN all_data :
        /\ k \in KeysOf(all_keys)
        /\ \E b \in Finished :
              /\ futures[b].merged = 1
              /\ Decoded(b)
              /\ \E i \in DumpPlaces(b, k, NonNull) :
                    all_data[k].dump = AnswerTo(b, i, "DUMP")

(* A finished export without a failed batch in which a scanned key had a   *)
(* null DUMP result and is not in all_data, and another key is.            *)
SnapshotProvenanceWitness ==
    /\ pc = "done"
    /\ FailedBatches = {}
    /\ DOMAIN all_data # {}
    /\ \E k \in KeysOf(all_keys) : k \notin DOMAIN all_data

---------------------------------------------------------------------------
(* The batches the model can hold *)
BatchIds == 1..MaxKeys

Pending(b) == b <= Len(futures) /\ futures[b].state = "pending"

(* C11. Bounded concurrency.  At every moment at most THREADS batch reads  *)
(* are in flight; a batch starts only in a state in which fewer than       *)
(* THREADS are in flight, so one beyond the bound waits until a read in    *)
(* flight has finished; and every batch that waits is started in the end.  *)
BoundedConcurrency ==
    /\ [](Cardinality(Running) <= THREADS)
    /\ [][\A b \in 1..Len(futures) :
            (futures[b].state = "pending" /\ futures'[b].state = "running")
                => Cardinality(Running) < THREADS]_vars
    /\ (\E b \in BatchIds : Pending(b)) ~> (\A b \in BatchIds : ~Pending(b))

(* THREADS reads are in flight and a batch waits behind them *)
BoundedConcurrencyWitness ==
    /\ Cardinality(Running) = THREADS
    /\ \E b \in 1..Len(futures) : futures[b].state = "pending"

---------------------------------------------------------------------------
(* C12. In the document that export_to_json has written, metadata.total_keys *)
(* is the number of entries of the keys mapping, in every run.             *)
TotalKeysCount ==
    output_file.exists =>
        output_file.metadata.total_keys = Cardinality(DOMAIN output_file.keys)

(* A document is written with an entry, after a batch failed and a key of  *)
(* a batch that succeeded had a null dump                                  *)
TotalKeysCountWitness ==
    /\ output_file.exists
    /\ DOMAIN output_file.keys # {}
    /\ FailedBatches # {}
    /\ \E b \in 1..Len(futures) : Decoded(b) /\ \E i \in 1..Len(futures[b].keys) :
          AnswerTo(b, i, "DUMP") = JNull

---------------------------------------------------------------------------
(* C13. Once scan_all_keys has returned at least one key, export_to_json   *)
(* writes the output file in the end, however many batch reads fail: every *)
(* pipeline request ends, by an answer or by an exception such as the      *)
(* timeout.                                                                *)
ExportCompletes ==
    (pc = "scanned" /\ all_keys # <<>>) ~> output_file.exists

(* The file was written after the reads of all the batches, more than one, *)
(* failed: by an exception and by a status other than 200                  *)
ExportCompletesWitness ==
    /\ output_file.exists
    /\ Len(futures) > 1
    /\ FailedBatches = 1..Len(futures)
    /\ \E b \in FailedBatches : futures[b].resp.exc
    /\ \E b \in FailedBatches : ~futures[b].resp.exc

---------------------------------------------------------------------------
(* The three commands of the i-th key of batch b, as they were sent *)
CmdsOfKey(b, i) == SubSeq(Cmds(b), 3 * (i - 1) + 1, 3 * i)

(* The results at the three positions of the i-th key of batch b *)
ResultsOfKey(b, i) == SubSeq(futures[b].resp.body, 3 * (i - 1) + 1, 3 * i)

Sent == {b \in 1..Len(futures) : futures[b].sent # <<>>}

(* C14 as stated: the three commands of a key are DUMP, TYPE, PTTL in that *)
(* order, and a record takes payload, kind and ttl from the results at the *)
(* first, second and third of the key's positions.                         *)
DumpTypePttlOrder ==
    \A b \in Sent :
        /\ Len(Cmds(b)) = 3 * Len(futures[b].keys)
        /\ \A i \in 1..Len(futures[b].keys) :
              LET key == futures[b].keys[i]
              IN  CmdsOfKey(b, i) = << <<"DUMP", key>>, <<"TYPE", key>>, <<"PTTL", key>> >>
        /\ Decoded(b) =>
              \A k \in DOMAIN futures[b].result :
                  \E i \in 1..Len(futures[b].keys) :
                      /\ futures[b].keys[i] = k
                      /\ futures[b].result[k].dump = ResultsOfKey(b, i)[1]

(* C14, amended.  For a batch of n keys read_batch_data sends one pipeline *)
(* of 3n commands, for the i-th key TYPE, DUMP, PTTL in that order at the  *)
(* positions 3i, 3i+1, 3i+2 (i from 0); the record of a key takes its kind *)
(* from the result at the position of a TYPE command of that key, and its  *)
(* payload and ttl from the results of the DUMP and the PTTL command that  *)
(* follow it: never from a position of another key.                        *)
TypeDumpPttlOrder ==
    \A b \in Sent :
        /\ Len(futures[b].sent) = 1
        /\ Len(Cmds(b)) = 3 * Len(futures[b].keys)
        /\ \A i \in 1..Len(futures[b].keys) :
              LET key == futures[b].keys[i]
              IN  CmdsOfKey(b, i) = << <<"TYPE", key>>, <<"DUMP", key>>, <<"PTTL", key>> >>
        /\ Decoded(b) =>
              \A k \in DOMAIN futures[b].result :
                  \E i \in 1..Len(futures[b].keys) :
                      LET type == ResultsOfKey(b, i)[1]
                          dump == ResultsOfKey(b, i)[2]
                          pttl == ResultsOfKey(b, i)[3]
                          record == futures[b].result[k]
                      IN  /\ futures[b].keys[i] = k
                          /\ Payload(dump)
                          /\ record.dump = dump
                          /\ record.type = IF type = Missing THEN JStr("none") ELSE type
                          /\ record.ttl = IF pttl # Missing /\ pttl.n > 0 THEN pttl
                                          ELSE JInt(-1)

(* A batch of two keys returned both, each with the payload, the kind and  *)
(* the ttl at its own positions, which differ from those of the other key  *)
TypeDumpPttlOrderWitness ==
    \E b \in Finished :
        /\ Decoded(b)
        /\ Len(futures[b].keys) = 2
        /\ futures[b].keys[1] # futures[b].keys[2]
        /\ ResultsOfKey(b, 1) = <<JStr("string"), JStr("X1"), JInt(5)>>
        /\ ResultsOfKey(b, 2) = <<Missing, JStr("X2"), JInt(-1)>>
        /\ futures[b].result[futures[b].keys[1]] =
              [type |-> JStr("string"), dump |-> JStr("X1"), ttl |-> JInt(5)]
        /\ futures[b].result[futures[b].keys[2]] =
              [type |-> JStr("none"), dump |-> JStr("X2"), ttl |-> JInt(-1)]

---------------------------------------------------------------------------
(* A worker thread took a step: a future changed its state or its request  *)
WorkerStepped ==
    \E b \in 1..Len(futures) :
        /\ b <= Len(futures')
        /\ \/ futures'[b].state # futures[b].state
           \/ futures'[b].sent # futures[b].sent
           \/ futures'[b].resp # futures[b].resp

(* The thread of export_to_json merged the result of batch b in its        *)
(* as_completed loop                                                       *)
MergedBy(b) ==
    /\ pc = "collect"
    /\ futures[b].state = "finished"
    /\ futures' = [futures EXCEPT ![b].merged = @ + 1]
    /\ all_data' = Update(all_data, futures[b].result)

(* C15. Serialized merge.  all_data is written only by the thread of       *)
(* export_to_json in its as_completed loop, one finished batch at a step;  *)
(* a step of a worker thread never changes it.                             *)
SerializedMerge ==
    [][/\ all_data' # all_data => \E b \in 1..Len(futures) : MergedBy(b)
       /\ WorkerStepped => all_data' = all_data]_vars

(* Two batches that returned records are merged while a third is still    *)
(* being read by a worker                                                  *)
SerializedMergeWitness ==
    /\ Cardinality({b \in Finished : futures[b].merged > 0
                                     /\ DOMAIN futures[b].result # {}}) >= 2
    /\ Running # {}
    /\ DOMAIN all_data # {}

---------------------------------------------------------------------------
(* C16. One request per batch, no retry.  The futures are the batches in   *)
(* their order, one future for a batch; a batch that waits has sent no     *)
(* request, a batch that is read or was read has sent one, whatever the    *)
(* answer was; and when the export is done every batch was submitted.      *)
OneRequestPerBatch ==
    /\ Len(futures) <= Len(batches)
    /\ pc \in {"collect", "done"} => Len(futures) = Len(batches)
    /\ \A b \in 1..Len(futures) :
          /\ futures[b].batch_id = b
          /\ futures[b].keys = batches[b]
          /\ futures[b].state = "pending" => futures[b].sent = <<>>
          /\ futures[b].state \in {"running", "finished"} =>
                futures[b].sent = <<BuildCommands(batches[b])>>

(* The export is done: of its batches one was answered by an exception,    *)
(* one by a status other than 200, and each has sent its one request       *)
OneRequestPerBatchWitness ==
    /\ pc = "done"
    /\ \E b \in FailedBatches : futures[b].resp.exc /\ Len(futures[b].sent) = 1
    /\ \E b \in FailedBatches :
          ~futures[b].resp.exc /\ futures[b].resp.status_code # 200
          /\ Len(futures[b].sent) = 1

---------------------------------------------------------------------------
(* Step i was answered with status 200 and a result of fewer than two      *)
(* elements                                                                *)
Malformed(i) ==
    /\ ~scan_log[i].resp.exc
    /\ scan_log[i].resp.status_code = 200
    /\ Len(scan_log[i].resp.result) < 2

(* C17. Malformed scan step.  A step answered with status 200 and a result *)
(* of fewer than two elements leaves the cursor and the key list as they   *)
(* were and does not end the scan: scan_all_keys is still in its loop      *)
(* after it, and the next step, if one was made, sent the same cursor.     *)
MalformedStepSkipped ==
    \A i \in 1..Len(scan_log) : Malformed(i) =>
        /\ i < Len(scan_log) => scan_log[i + 1].sent = scan_log[i].sent
        /\ i = Len(scan_log) =>
              /\ pc = "scan"
              /\ cursor = scan_log[i].sent
              /\ all_keys = KeysUpTo(i - 1)

---------------------------------------------------------------------------
(* C18. Finalization ordering.  The result of a batch is merged only when  *)
(* its read has completed, and once at most.  When the document is written *)
(* every batch was submitted, read and merged once, and from then on the   *)
(* records mapping stays the one that was written.                         *)
FinalizationOrdering ==
    /\ \A b \in 1..Len(futures) :
          /\ futures[b].merged <= 1
          /\ futures[b].merged = 1 => futures[b].state = "finished"
    /\ output_file.exists =>
          /\ Len(futures) = Len(batches)
          /\ \A b \in 1..Len(futures) :
                futures[b].state = "finished" /\ futures[b].merged = 1
          /\ output_file.keys = all_data
          /\ pc = "done"

(* The document is written after three batches were read and merged, two   *)
(* of them with records                                                    *)
FinalizationOrderingWitness ==
    /\ output_file.exists
    /\ Len(futures) >= 3
    /\ \A b \in 1..Len(futures) : futures[b].merged = 1
    /\ Cardinality({b \in 1..Len(futures) : DOMAIN futures[b].result # {}}) >= 2

---------------------------------------------------------------------------
(* The response of batch b has status 200 and one result per command *)
RightLength(b) ==
    /\ ~futures[b].resp.exc
    /\ futures[b].resp.status_code = 200
    /\ Len(futures[b].resp.body) = Len(Cmds(b))

Absent(v) == v = Missing \/ v = JNull

(* C19. Decode anomalies are not escalated.  For a response of the right   *)
(* length read_batch_data does not raise, whatever TYPE and PTTL results   *)
(* are missing or null; every key with a payload is returned; and a record *)
(* whose TYPE result is missing or null has kind "none", one whose PTTL    *)
(* result is missing or null has ttl -1.                                   *)
DecodeAnomaliesTolerated ==
    \A b \in Finished : RightLength(b) =>
        /\ ~Raised(b)
        /\ \A k \in KeysOf(futures[b].keys) :
              DumpPlaces(b, k, Payload) # {} => k \in DOMAIN futures[b].result
        /\ \A k \in DOMAIN futures[b].result :
              LET i == Last(DumpPlaces(b, k, Payload))
              IN  /\ Absent(AnswerTo(b, i, "TYPE")) =>
                        futures[b].result[k].type = JStr("none")
                  /\ Absent(AnswerTo(b, i, "PTTL")) =>
                        futures[b].result[k].ttl = JInt(-1)

---------------------------------------------------------------------------
(* C20. Empty key list.  When scan_all_keys has returned no key,           *)
(* export_to_json returns: no batch is made, submitted or read, the output *)
(* file is not written and no summary is printed; and export_to_json       *)
(* returns this way only with an empty key list.                           *)
EmptyKeyListReturns ==
    /\ (pc \notin {"scan", "crashed"} /\ all_keys = <<>>) =>
          /\ pc \in {"scanned", "returned"}
          /\ batches = <<>>
          /\ futures = <<>>
          /\ output_file = NoFile
          /\ summary = NoSummary
    /\ pc = "returned" => all_keys = <<>> /\ stdout["no_keys"] = 1

(* export_to_json has returned after a scan that failed before it found a  *)
(* key                                                                     *)
EmptyKeyListReturnsWitness ==
    /\ pc = "returned"
    /\ stdout["scan_failed"] = 1
    /\ stdout["no_keys"] = 1
    /\ futures = <<>>
    /\ ~output_file.exists

====
